---- MODULE Spec2Model ----
(***************************************************************************)
(* Model of app.py, the Streamlit dashboard over car_sales_db: the cached  *)
(* connection, the sidebar filters and build_match, the six aggregation    *)
(* transforms with their time-to-live caches, and the car detail lookup.   *)
(*                                                                         *)
(* Python strings that the code parses or formats are sequences of         *)
(* one-character strings; document values are tagged (number, string,      *)
(* null) so that type-sensitive comparisons of the store are kept.         *)
(***************************************************************************)
EXTENDS Integers, Sequences, FiniteSets, TLC

VARIABLES
    cars,               \* db.cars: the documents in natural order
    dealers,            \* db.dealers: a set of dealer documents
    sel_manufacturer,   \* sidebar selectbox "Manufacturer"
    sel_fuel,           \* sidebar multiselect "Fuel type"
    sel_dealer,         \* sidebar selectbox "Dealer"
    price_range,        \* sidebar slider "Price range", <<lo, hi>>
    year_range,         \* sidebar slider "Year range", <<lo, hi>>
    dealer_id_filter,   \* parse_dealer(sel_dealer)
    match,              \* build_match()
    out,                \* the last transform call of the script run and its result
    today,              \* the wall-clock date, <<year, month, day>>
    days,               \* days elapsed since the process started
    clock,              \* wall-clock seconds since the process started
    ticks,              \* clock advances so far
    mongo_uri,          \* whether st.secrets or the environment gives a URI
    resource_cache,     \* st.cache_resource entry of get_db
    clients,            \* the MongoClient objects constructed so far: their times
    db,                 \* what get_db returned to the last script run, and when
    data_cache,         \* st.cache_data entries, keyed by <<function, argument>>
    queries             \* per function and argument, the last store query: its
                        \* time and its result

storeVars  == <<cars, dealers>>
filterVars == <<sel_manufacturer, sel_fuel, sel_dealer, price_range, year_range,
                dealer_id_filter, match>>
dateVars   == <<today, days>>
clockVars  == <<clock, ticks>>
connVars   == <<mongo_uri, resource_cache, clients, db>>
cacheVars  == <<data_cache, queries>>
vars == <<cars, dealers, sel_manufacturer, sel_fuel, sel_dealer, price_range,
          year_range, dealer_id_filter, match, out, today, days, clock, ticks,
          mongo_uri, resource_cache, clients, db, data_cache, queries>>

-----------------------------------------------------------------------------
(* Document values *)

Num(n) == [t |-> "num", n |-> n, s |-> <<>>]
Str(s) == [t |-> "str", n |-> 0, s |-> s]
Null   == [t |-> "null", n |-> 0, s |-> <<>>]
\* The value of an expression that raised
Raised == [t |-> "raised", n |-> 0, s |-> <<>>]

IsNum(v) == v.t = "num"

\* Python truthiness of None, an int or a str
Truthy(v) ==
    CASE v.t = "num" -> v.n # 0
      [] v.t = "str" -> v.s # <<>>
      [] OTHER -> FALSE

-----------------------------------------------------------------------------
(* Python str(), int() and str.split on character sequences *)

DigitChars == <<"0", "1", "2", "3", "4", "5", "6", "7", "8", "9">>
IsDigit(c) == \E i \in 1..Len(DigitChars) : DigitChars[i] = c
DigitVal(c) == (CHOOSE i \in 1..Len(DigitChars) : DigitChars[i] = c) - 1

RECURSIVE NatToStr(_)
NatToStr(n) ==
    IF n < Len(DigitChars) THEN <<DigitChars[n + 1]>>
    ELSE NatToStr(n \div Len(DigitChars)) \o <<DigitChars[(n % Len(DigitChars)) + 1]>>

\* str(x) of an int, a str or None
py_str(v) ==
    CASE v.t = "num" -> IF v.n < 0 THEN <<"-">> \o NatToStr(0 - v.n) ELSE NatToStr(v.n)
      [] v.t = "str" -> v.s
      [] OTHER -> <<"N", "o", "n", "e">>

RECURSIVE LStrip(_)
LStrip(s) == IF s # <<>> /\ Head(s) = " " THEN LStrip(Tail(s)) ELSE s
RECURSIVE RStrip(_)
RStrip(s) == IF s # <<>> /\ s[Len(s)] = " " THEN RStrip(SubSeq(s, 1, Len(s) - 1)) ELSE s

RECURSIVE DigitsVal(_)
DigitsVal(s) ==
    IF s = <<>> THEN 0
    ELSE DigitsVal(SubSeq(s, 1, Len(s) - 1)) * Len(DigitChars) + DigitVal(s[Len(s)])

AllDigits(s) == s # <<>> /\ \A i \in 1..Len(s) : IsDigit(s[i])

\* int(s) of a str: surrounding blanks and one sign are accepted, then decimal
\* digits only; anything else raises ValueError
py_int(s) ==
    LET b == RStrip(LStrip(s))
        signed == b # <<>> /\ Head(b) \in {"-", "+"}
        ds == IF signed THEN Tail(b) ELSE b
    IN  IF ~AllDigits(ds) THEN Raised
        ELSE IF signed /\ Head(b) = "-" THEN Num(0 - DigitsVal(ds))
        ELSE Num(DigitsVal(ds))

\* s.split(sep)[0]
RECURSIVE SplitFirst(_, _)
SplitFirst(s, sep) ==
    IF s = <<>> \/ Head(s) = sep THEN <<>>
    ELSE <<Head(s)>> \o SplitFirst(Tail(s), sep)

ALL == <<"A", "l", "l">>

-----------------------------------------------------------------------------
(* Sequences and sums *)

Range(f) == {f[i] : i \in DOMAIN f}

RECURSIVE SumOver(_, _)
\* the sum of w[x] over the finite set S
SumOver(S, w) ==
    IF S = {} THEN 0
    ELSE LET x == CHOOSE y \in S : TRUE IN w[x] + SumOver(S \ {x}, w)

\* every arrangement of the finite set S as a sequence
Arrangements(S) ==
    {q \in [1..Cardinality(S) -> S] : \A i, j \in DOMAIN q : i # j => q[i] # q[j]}

-----------------------------------------------------------------------------
(* The store's query semantics *)

Eq(v)        == [op |-> "eq", eq |-> v, in |-> {}, gte |-> 0, lte |-> 0]
In(S)        == [op |-> "in", eq |-> Null, in |-> S, gte |-> 0, lte |-> 0]
Between(a, b) == [op |-> "range", eq |-> Null, in |-> {}, gte |-> a, lte |-> b]

\* one field of a query document against one field of a stored document:
\* equality and $in compare type and value, $gte/$lte with numbers match
\* numbers only
Holds(v, c) ==
    CASE c.op = "eq" -> v = c.eq
      [] c.op = "in" -> v \in c.in
      [] OTHER -> IsNum(v) /\ c.gte <= v.n /\ v.n <= c.lte

\* find(query) / $match: every field of the query holds of the document
Matches(doc, query) == \A k \in DOMAIN query : Holds(doc[k], query[k])

-----------------------------------------------------------------------------
(* Sidebar filters *)

Min(S) == CHOOSE x \in S : \A y \in S : x <= y
Max(S) == CHOOSE x \in S : \A y \in S : x >= y

\* load_filter_options
manufacturers == {cars[i].manufacturer : i \in DOMAIN cars}
fuel_types    == {cars[i].fuel_type : i \in DOMAIN cars}
dealers_map   == {<<py_str(d.DealerID), d.DealerName>> : d \in dealers}
MIN_PRICE == Min({cars[i].price.n : i \in DOMAIN cars})
MAX_PRICE == Max({cars[i].price.n : i \in DOMAIN cars})
MIN_YEAR  == Min({cars[i].year_of_manufacturing.n : i \in DOMAIN cars})
MAX_YEAR  == Max({cars[i].year_of_manufacturing.n : i \in DOMAIN cars})

\* the options of the widgets
DealerLabel(k, v) == k \o <<" ", "|", " ">> \o v
ManufacturerOptions == {ALL} \cup {m.s : m \in {x \in manufacturers : Truthy(x)}}
FuelOptions   == {f \in fuel_types : Truthy(f)}
DealerOptions == {ALL} \cup {DealerLabel(e[1], e[2]) : e \in dealers_map}
\* the <<lo, hi>> pairs a range slider over lo..hi can return
Intervals(lo, hi) == {p \in (lo..hi) \X (lo..hi) : p[1] <= p[2]}

parse_dealer(value) ==
    IF value = ALL THEN Null ELSE py_int(SplitFirst(value, "|"))

build_match(manufacturer, fuel, dealer, price, year) ==
    (IF manufacturer # ALL THEN "manufacturer" :> Eq(Str(manufacturer)) ELSE <<>>)
    @@ (IF fuel # {} THEN "fuel_type" :> In(fuel) ELSE <<>>)
    @@ (IF Truthy(dealer) THEN "dealer_id" :> Eq(dealer) ELSE <<>>)
    @@ ("price" :> Between(price[1], price[2]))
    @@ ("year_of_manufacturing" :> Between(year[1], year[2]))

-----------------------------------------------------------------------------
(* Aggregation pipelines.  A pipeline is the set of row sequences the store
   may return: $sort leaves the order of rows with equal keys to the store. *)

\* pipeline = []; if match: pipeline.append({"$match": match})
MatchStage(coll, query) ==
    IF query # <<>> THEN {i \in DOMAIN coll : Matches(coll[i], query)} ELSE DOMAIN coll

\* {"$sort": {key: -1}}
SortDescending(rows, key) ==
    {q \in Arrangements(rows) : \A i, j \in DOMAIN q : i < j => q[i][key] >= q[j][key]}

\* {"$sort": {key: 1}}
SortAscending(rows, key) ==
    {q \in Arrangements(rows) : \A i, j \in DOMAIN q : i < j => q[i][key] <= q[j][key]}

\* the pipeline without its $match stage
manufacturer_distribution_unfiltered(coll, query) ==
    LET docs == DOMAIN coll
        rows == {[manufacturer |-> g,
                  count |-> Cardinality({i \in docs : coll[i].manufacturer = g})] :
                 g \in {coll[i].manufacturer : i \in docs}}
    IN  SortDescending(rows, "count")

manufacturer_distribution_pipeline(coll, query) ==
    LET docs == MatchStage(coll, query)
        rows == {[manufacturer |-> g,
                  count |-> Cardinality({i \in docs : coll[i].manufacturer = g})] :
                 g \in {coll[i].manufacturer : i \in docs}}
    IN  SortDescending(rows, "count")

fuel_distribution_pipeline(coll, query) ==
    LET docs == MatchStage(coll, query)
        rows == {[fuel_type |-> g,
                  count |-> Cardinality({i \in docs : coll[i].fuel_type = g})] :
                 g \in {coll[i].fuel_type : i \in docs}}
    IN  SortDescending(rows, "count")

RECURSIVE Gcd(_, _)
Gcd(a, b) == IF b = 0 THEN a ELSE Gcd(b, a % b)

\* the number sum / n, in lowest terms
Quotient(sum, n) ==
    [null |-> FALSE, num |-> sum \div Gcd(sum, n), den |-> n \div Gcd(sum, n)]
NoNumber == [null |-> TRUE, num |-> 0, den |-> 1]

\* a >= b in the store's sort order, where null sorts below every number
NumberGeq(a, b) ==
    IF b.null THEN TRUE
    ELSE IF a.null THEN FALSE
    ELSE a.num * b.den >= b.num * a.den

\* {"$avg": "$price"} over the documents docs of coll: the mean of the numeric
\* values, null when there is none
AvgPrice(coll, docs) ==
    LET nums == {i \in docs : IsNum(coll[i].price)}
    IN  IF nums = {} THEN NoNumber
        ELSE Quotient(SumOver(nums, [i \in nums |-> coll[i].price.n]), Cardinality(nums))

\* {"$sum": "$price"} in the place of $avg
SumPrice(coll, docs) ==
    LET nums == {i \in docs : IsNum(coll[i].price)}
    IN  Quotient(SumOver(nums, [i \in nums |-> coll[i].price.n]), 1)

\* the pipeline with $sum in the place of $avg
avg_price_by_manufacturer_summed(coll, query) ==
    LET docs == MatchStage(coll, query)
        rows == {[manufacturer |-> g,
                  avg_price |-> SumPrice(coll, {i \in docs : coll[i].manufacturer = g})] :
                 g \in {coll[i].manufacturer : i \in docs}}
    IN  {q \in Arrangements(rows) :
            \A i, j \in DOMAIN q : i < j => NumberGeq(q[i].avg_price, q[j].avg_price)}

avg_price_by_manufacturer_pipeline(coll, query) ==
    LET docs == MatchStage(coll, query)
        rows == {[manufacturer |-> g,
                  avg_price |-> AvgPrice(coll, {i \in docs : coll[i].manufacturer = g})] :
                 g \in {coll[i].manufacturer : i \in docs}}
    IN  {q \in Arrangements(rows) :
            \A i, j \in DOMAIN q : i < j => NumberGeq(q[i].avg_price, q[j].avg_price)}

\* {"$unwind": "$<field>"}: one element per entry of the embedded array,
\* <<document, position>>; a document with an empty array gives none
Unwind(coll, docs, field) ==
    UNION {{<<i, j>> : j \in DOMAIN coll[i][field]} : i \in docs}

\* the pipeline without $unwind: the vehicles per severity, not the entries
accident_severity_per_vehicle(coll, query) ==
    LET docs == {i \in MatchStage(coll, query) : coll[i].accidents # <<>>}
        rows == {[severity |-> g,
                  count |-> Cardinality({i \in docs :
                                g \in {a.Severity : a \in Range(coll[i].accidents)}})] :
                 g \in UNION {{a.Severity : a \in Range(coll[i].accidents)} : i \in docs}}
    IN  SortDescending(rows, "count")

accident_severity_pipeline(coll, query) ==
    LET docs == MatchStage(coll, query)
        elems == Unwind(coll, docs, "accidents")
        rows == {[severity |-> g,
                  count |-> Cardinality({e \in elems :
                                coll[e[1]].accidents[e[2]].Severity = g})] :
                 g \in {coll[e[1]].accidents[e[2]].Severity : e \in elems}}
    IN  SortDescending(rows, "count")

-----------------------------------------------------------------------------
(* Dates: datetime(year, month, day), and the order of datetimes
   <<year, month, day, hour>> *)

IsLeap(y) == (y % 4 = 0 /\ y % 100 # 0) \/ y % 400 = 0

DaysInMonth(y, m) ==
    CASE m \in {4, 6, 9, 11} -> 30
      [] m = 2 -> IF IsLeap(y) THEN 29 ELSE 28
      [] OTHER -> 31

\* datetime(y, m, d): midnight of that day, ValueError when there is no such day
datetime(y, m, d) ==
    IF y >= 1 /\ m \in 1..12 /\ d \in 1..DaysInMonth(y, m)
    THEN [ok |-> TRUE, at |-> <<y, m, d, 0>>]
    ELSE [ok |-> FALSE, at |-> <<0, 0, 0, 0>>]

RECURSIVE TupleLess(_, _)
TupleLess(a, b) ==
    /\ a # <<>>
    /\ \/ Head(a) < Head(b)
       \/ Head(a) = Head(b) /\ TupleLess(Tail(a), Tail(b))

\* {"$gte": b}
DateGte(a, b) == ~TupleLess(a, b)
\* {"$gt": b}
DateGt(a, b) == TupleLess(b, a)

\* {"$gt": cutoff} in the place of $gte
InWindowExclusive(date, cutoff) == DateGt(date, cutoff)

\* {"$match": {"services.Date_of_Service": {"$gte": cutoff}}}
InWindow(date, cutoff) == DateGte(date, cutoff)

\* the day after <<y, m, d>>
Tomorrow(date) ==
    IF date[3] < DaysInMonth(date[1], date[2]) THEN <<date[1], date[2], date[3] + 1>>
    ELSE IF date[2] < 12 THEN <<date[1], date[2] + 1, 1>>
    ELSE <<date[1] + 1, 1, 1>>

WindowYears == 5

\* y, m and d are what the three datetime.now() calls of the cutoff read
service_frequency_pipeline(coll, query, y, m, d) ==
    LET cutoff == datetime(y - WindowYears, m, d)
        docs == MatchStage(coll, query)
        elems == {e \in Unwind(coll, docs, "services") :
                     InWindow(coll[e[1]].services[e[2]].Date_of_Service, cutoff.at)}
        rows == {[year |-> g,
                  services_count |-> Cardinality({e \in elems :
                      coll[e[1]].services[e[2]].Date_of_Service[1] = g})] :
                 g \in {coll[e[1]].services[e[2]].Date_of_Service[1] : e \in elems}}
    IN  IF cutoff.ok
        THEN {[raised |-> FALSE, cutoff |-> cutoff.at, rows |-> q] :
                 q \in SortAscending(rows, "year")}
        ELSE {[raised |-> TRUE, cutoff |-> cutoff.at, rows |-> <<>>]}

-----------------------------------------------------------------------------
(* The price-vs-mileage sample *)

DefaultSampleLimit == 2000

\* find(query, projection).limit(limit): the first documents that match, in
\* natural order
Cursor(coll, query, limit) ==
    LET found == SelectSeq(coll, LAMBDA doc : Matches(doc, query))
    IN  SubSeq(found, 1, IF Len(found) < limit THEN Len(found) ELSE limit)

\* pd.to_numeric(errors="coerce") of one cell: a number stays, a string that
\* reads as a number becomes it, anything else becomes NaN
to_numeric(v) ==
    CASE v.t = "num" -> v
      [] v.t = "str" -> IF py_int(v.s) = Raised THEN Null ELSE py_int(v.s)
      [] OTHER -> Null

\* the columns of the projection; _id comes with every projection
SampleColumns == {"_id", "price", "mileage", "manufacturer", "model", "fuel_type"}

\* one row of the frame after the two to_numeric assignments
Coerced(doc) ==
    [k \in SampleColumns |->
        IF k \in {"price", "mileage"} THEN to_numeric(doc[k]) ELSE doc[k]]

\* DataFrame.dropna(): the rows without a missing value in any column
dropna(rows) == SelectSeq(rows, LAMBDA r : \A k \in DOMAIN r : r[k] # Null)

fetch_price_mileage(coll, query, limit) ==
    LET cursor == Cursor(coll, query, limit)
    IN  dropna([i \in DOMAIN cursor |-> Coerced(cursor[i])])

-----------------------------------------------------------------------------
(* The car history viewer *)

DefaultListLimit == 500

Label(doc) ==
    py_str(doc.manufacturer) \o <<" ">> \o py_str(doc.model)
        \o <<" ", "|", " ", "£">> \o py_str(doc.price)

fetch_cars_list(coll, query, limit) ==
    LET cursor == Cursor(coll, query, limit)
    IN  [i \in DOMAIN cursor |-> [_id |-> cursor[i]._id, label |-> Label(cursor[i])]]

\* options = {str(c["_id"]): c["label"] for c in cars}: the keys; an entry
\* written twice keeps the label written last
OptionKeys(list) == {py_str(list[i]._id) : i \in DOMAIN list}
OptionEntry(list, key) ==
    list[Max({i \in DOMAIN list : py_str(list[i]._id) = key})]

\* try: car_id = int(selected_key) / except: car_id = selected_key
CarId(selected_key) ==
    IF py_int(selected_key) = Raised THEN Str(selected_key) ELSE py_int(selected_key)

NoDocument == [found |-> FALSE, doc |-> <<>>]

\* find_one({"_id": car_id})
get_car_detail(coll, car_id) ==
    LET hits == {i \in DOMAIN coll : coll[i]._id = car_id}
    IN  IF hits = {} THEN NoDocument ELSE [found |-> TRUE, doc |-> coll[Min(hits)]]

-----------------------------------------------------------------------------
(* st.cache_resource and st.cache_data: an entry is [value, created]; it is
   served while the clock is before created + ttl *)

RESOURCE_TTL == 3600
DATA_TTL == 300

\* an entry still served when its age is exactly ttl
FreshInclusive(cache, key, now, ttl) ==
    key \in DOMAIN cache /\ now <= cache[key].created + ttl

Fresh(cache, key, now, ttl) ==
    key \in DOMAIN cache /\ now < cache[key].created + ttl

Put(cache, key, value, now) ==
    (key :> [value |-> value, created |-> now]) @@ cache

-----------------------------------------------------------------------------
(* Documents *)

TOYOTA == <<"T", "o", "y", "o", "t", "a">>
FORD   == <<"F", "o", "r", "d">>
PETROL == <<"P", "e", "t", "r", "o", "l">>
DIESEL == <<"D", "i", "e", "s", "e", "l">>

\* a document of db.cars
Car(id, manufacturer, fuel, price, year, mileage, dealer, accidents, services) ==
    [_id |-> id, manufacturer |-> manufacturer, model |-> Str(<<"X">>),
     fuel_type |-> fuel, price |-> price, year_of_manufacturing |-> year,
     mileage |-> mileage, dealer_id |-> dealer,
     accidents |-> accidents, services |-> services]

\* a document of db.dealers
Dealer(id, name) == [DealerID |-> Num(id), DealerName |-> name]

\* the collections of at most n documents drawn from docs, _id 1, 2, ... in
\* natural order
Collections(docs, n) ==
    UNION {{[i \in 1..k |-> [q[i] EXCEPT !._id = Num(i)]] : q \in [1..k -> docs]} : k \in 1..n}

-----------------------------------------------------------------------------
(* The script run up to build_match: each widget change reruns the script *)

NoCall == [fn |-> "none"]

SetFilters(m, f, d, p, y) ==
    /\ sel_manufacturer' = m
    /\ sel_fuel' = f
    /\ sel_dealer' = d
    /\ price_range' = p
    /\ year_range' = y
    /\ dealer_id_filter' = parse_dealer(d)
    /\ match' = build_match(m, f, parse_dealer(d), p, y)
    /\ out' = NoCall

\* the first run: every widget at its default
DefaultFilters ==
    /\ sel_manufacturer = ALL
    /\ sel_fuel = FuelOptions
    /\ sel_dealer = ALL
    /\ price_range = <<MIN_PRICE, MAX_PRICE>>
    /\ year_range = <<MIN_YEAR, MAX_YEAR>>
    /\ dealer_id_filter = parse_dealer(ALL)
    /\ match = build_match(ALL, FuelOptions, parse_dealer(ALL),
                           <<MIN_PRICE, MAX_PRICE>>, <<MIN_YEAR, MAX_YEAR>>)
    /\ out = NoCall

SelectManufacturer ==
    /\ \E m \in ManufacturerOptions :
          SetFilters(m, sel_fuel, sel_dealer, price_range, year_range)
    /\ UNCHANGED <<storeVars, dateVars, clockVars, connVars, cacheVars>>

SelectFuel ==
    /\ \E f \in SUBSET FuelOptions :
          SetFilters(sel_manufacturer, f, sel_dealer, price_range, year_range)
    /\ UNCHANGED <<storeVars, dateVars, clockVars, connVars, cacheVars>>

SelectDealer ==
    /\ \E d \in DealerOptions :
          SetFilters(sel_manufacturer, sel_fuel, d, price_range, year_range)
    /\ UNCHANGED <<storeVars, dateVars, clockVars, connVars, cacheVars>>

SlidePrice ==
    /\ \E p \in Intervals(MIN_PRICE, MAX_PRICE) :
          SetFilters(sel_manufacturer, sel_fuel, sel_dealer, p, year_range)
    /\ UNCHANGED <<storeVars, dateVars, clockVars, connVars, cacheVars>>

SlideYear ==
    /\ \E y \in Intervals(MIN_YEAR, MAX_YEAR) :
          SetFilters(sel_manufacturer, sel_fuel, sel_dealer, price_range, y)
    /\ UNCHANGED <<storeVars, dateVars, clockVars, connVars, cacheVars>>

\* the parts of the state a specification does not exercise
StartDate == <<2024, 1, 1>>
NoDate  == today = StartDate /\ days = 0
NoClock == clock = 0 /\ ticks = 0
NoHandle == [handle |-> 0, at |-> 0]
NoConn  == mongo_uri = TRUE /\ resource_cache = <<>> /\ clients = <<>> /\ db = NoHandle
NoCache == data_cache = <<>> /\ queries = <<>>

-----------------------------------------------------------------------------
(* SpecFilter: the sidebar and build_match *)

FilterCars ==
    <<Car(Num(1), Str(TOYOTA), Str(PETROL), Num(1), Num(2020), Num(10), Num(0), <<>>, <<>>),
      Car(Num(2), Str(FORD), Str(DIESEL), Num(3), Num(2022), Num(10), Num(12), <<>>, <<>>)>>

FilterDealers ==
    {Dealer(0, <<"A">>), Dealer(1, <<"B", "|", "C">>), Dealer(12, <<"D">>), Dealer(0 - 3, <<"E">>)}

FilterInit ==
    /\ cars = FilterCars
    /\ dealers \in SUBSET FilterDealers
    /\ DefaultFilters
    /\ NoDate /\ NoClock /\ NoConn /\ NoCache

FilterNext ==
    \/ SelectManufacturer
    \/ SelectFuel
    \/ SelectDealer
    \/ SlidePrice
    \/ SlideYear

SpecFilter == FilterInit /\ [][FilterNext]_vars

\* C1: build_match's predicate holds manufacturer equality exactly when the
\* manufacturer is not "All", fuel-type membership exactly when the fuel set is
\* not empty, dealer equality exactly when a dealer is selected, whatever the
\* selected dealer's id, and always the closed price and year intervals.
C1_MatchHoldsExactlyTheSelectedFilters ==
    /\ "manufacturer" \in DOMAIN match <=> sel_manufacturer # ALL
    /\ sel_manufacturer # ALL => match["manufacturer"] = Eq(Str(sel_manufacturer))
    /\ "fuel_type" \in DOMAIN match <=> sel_fuel # {}
    /\ sel_fuel # {} => match["fuel_type"] = In(sel_fuel)
    /\ "dealer_id" \in DOMAIN match <=> sel_dealer # ALL
    /\ \A d \in dealers :
          sel_dealer = DealerLabel(py_str(d.DealerID), d.DealerName)
              => "dealer_id" \in DOMAIN match /\ match["dealer_id"] = Eq(d.DealerID)
    /\ "price" \in DOMAIN match
    /\ match["price"] = Between(price_range[1], price_range[2])
    /\ "year_of_manufacturing" \in DOMAIN match
    /\ match["year_of_manufacturing"] = Between(year_range[1], year_range[2])

\* C1 without the dealer whose id is 0: the predicate is as selected
C1_HoldsForNonZeroDealers ==
    dealer_id_filter # Num(0) => C1_MatchHoldsExactlyTheSelectedFilters

-----------------------------------------------------------------------------
(* SpecDist: the manufacturer, fuel and average-price charts of one run *)

MaxCars == 3

DistDocs ==
    {Car(Null, Str(TOYOTA), Str(f), Num(p), Num(2020), Num(10), Num(1), <<>>, <<>>) :
        f \in {PETROL, DIESEL}, p \in {1, 2}}
    \cup {Car(Null, Str(FORD), Str(PETROL), Num(p), Num(2020), Num(10), Num(1), <<>>, <<>>) :
        p \in {1, 2}}

ShowManufacturerDistribution ==
    /\ \E rows \in manufacturer_distribution_pipeline(cars, match) :
          out' = [fn |-> "manufacturer_distribution", rows |-> rows]
    /\ UNCHANGED <<storeVars, filterVars, dateVars, clockVars, connVars, cacheVars>>

ShowAvgPrice ==
    /\ \E rows \in avg_price_by_manufacturer_pipeline(cars, match) :
          out' = [fn |-> "avg_price_by_manufacturer", rows |-> rows]
    /\ UNCHANGED <<storeVars, filterVars, dateVars, clockVars, connVars, cacheVars>>

ShowFuelDistribution ==
    /\ \E rows \in fuel_distribution_pipeline(cars, match) :
          out' = [fn |-> "fuel_distribution", rows |-> rows]
    /\ UNCHANGED <<storeVars, filterVars, dateVars, clockVars, connVars, cacheVars>>

DistInit ==
    /\ cars \in Collections(DistDocs, MaxCars)
    /\ dealers = {}
    /\ DefaultFilters
    /\ NoDate /\ NoClock /\ NoConn /\ NoCache

DistNext ==
    \/ SelectManufacturer
    \/ SelectFuel
    \/ SlidePrice
    \/ ShowManufacturerDistribution
    \/ ShowAvgPrice
    \/ ShowFuelDistribution

SpecDist == DistInit /\ [][DistNext]_vars

\* the vehicles that satisfy the current predicate
Matching == {i \in DOMAIN cars : Matches(cars[i], match)}

RowCountSum(rows) == SumOver(DOMAIN rows, [i \in DOMAIN rows |-> rows[i].count])

\* C4: the counts of the manufacturer distribution sum to the number of
\* vehicles matching the predicate, and so do the counts of the fuel
\* distribution; each distinct manufacturer (fuel type) of a matching vehicle
\* has exactly one row, and the rows are in non-increasing order of count.
C4_DistributionCountsSumToMatching ==
    /\ out.fn = "manufacturer_distribution" =>
          /\ RowCountSum(out.rows) = Cardinality(Matching)
          /\ \A i \in Matching :
                Cardinality({r \in DOMAIN out.rows :
                    out.rows[r].manufacturer = cars[i].manufacturer}) = 1
          /\ \A r \in DOMAIN out.rows :
                \E i \in Matching : cars[i].manufacturer = out.rows[r].manufacturer
          /\ \A a, b \in DOMAIN out.rows : a < b => out.rows[a].count >= out.rows[b].count
    /\ out.fn = "fuel_distribution" =>
          /\ RowCountSum(out.rows) = Cardinality(Matching)
          /\ \A i \in Matching :
                Cardinality({r \in DOMAIN out.rows :
                    out.rows[r].fuel_type = cars[i].fuel_type}) = 1
          /\ \A r \in DOMAIN out.rows :
                \E i \in Matching : cars[i].fuel_type = out.rows[r].fuel_type
          /\ \A a, b \in DOMAIN out.rows : a < b => out.rows[a].count >= out.rows[b].count

\* a manufacturer distribution of two rows with different counts
C4_Reached ==
    /\ out.fn = "manufacturer_distribution"
    /\ Len(out.rows) = 2
    /\ out.rows[1].count > out.rows[2].count

\* C5: the average-price rows are the manufacturers with a matching vehicle,
\* each with the arithmetic mean of the prices of its matching vehicles (their
\* sum divided by their number), in non-increasing order of avg_price.
C5_AvgPriceIsMeanOfMatching ==
    out.fn = "avg_price_by_manufacturer" =>
        /\ \A i \in DOMAIN cars :
              (\E r \in DOMAIN out.rows : out.rows[r].manufacturer = cars[i].manufacturer)
                  <=> (\E k \in Matching : cars[k].manufacturer = cars[i].manufacturer)
        /\ \A r \in DOMAIN out.rows :
              LET of == {i \in Matching : cars[i].manufacturer = out.rows[r].manufacturer}
                  total == SumOver(of, [i \in of |-> cars[i].price.n])
              IN  /\ of # {}
                  /\ ~out.rows[r].avg_price.null
                  /\ out.rows[r].avg_price.num * Cardinality(of)
                         = total * out.rows[r].avg_price.den
                  /\ \A q \in DOMAIN out.rows :
                        q # r => out.rows[q].manufacturer # out.rows[r].manufacturer
        /\ \A a, b \in DOMAIN out.rows :
              a < b => out.rows[a].avg_price.num * out.rows[b].avg_price.den
                           >= out.rows[b].avg_price.num * out.rows[a].avg_price.den

\* two manufacturers with different means, the higher not a whole number
C5_Reached ==
    /\ out.fn = "avg_price_by_manufacturer"
    /\ Len(out.rows) = 2
    /\ out.rows[1].avg_price.den = 2
    /\ out.rows[1].avg_price # out.rows[2].avg_price

-----------------------------------------------------------------------------
(* SpecAcc: the accident severity chart *)

AccDocs ==
    {Car(Null, Str(m), Str(PETROL), Num(1), Num(2020), Num(10), Num(1), a, <<>>) :
        m \in {TOYOTA, FORD},
        a \in {<<>>, <<[Severity |-> "Minor"]>>,
               <<[Severity |-> "Minor"], [Severity |-> "Major"]>>,
               <<[Severity |-> "Major"], [Severity |-> "Major"]>>}}

ShowAccidentSeverity ==
    /\ \E rows \in accident_severity_pipeline(cars, match) :
          out' = [fn |-> "accident_severity", rows |-> rows]
    /\ UNCHANGED <<storeVars, filterVars, dateVars, clockVars, connVars, cacheVars>>

AccInit ==
    /\ cars \in Collections(AccDocs, MaxCars)
    /\ dealers = {}
    /\ DefaultFilters
    /\ NoDate /\ NoClock /\ NoConn /\ NoCache

AccNext ==
    \/ SelectManufacturer
    \/ ShowAccidentSeverity

SpecAcc == AccInit /\ [][AccNext]_vars

\* C6: the accident severity counts sum to the number of embedded accident
\* entries of the vehicles matching the predicate (a vehicle with N accidents
\* contributes N, one with none contributes 0), not to the number of vehicles.
C6_SeverityCountsSumToAccidentEntries ==
    out.fn = "accident_severity" =>
        RowCountSum(out.rows)
            = SumOver(Matching, [i \in Matching |-> Len(cars[i].accidents)])

\* a predicate that leaves a vehicle out, and a matching vehicle with two
\* accidents of the same severity: more accident entries than vehicles
C6_Reached ==
    /\ out.fn = "accident_severity"
    /\ Cardinality(Matching) < Len(cars)
    /\ \E i \in Matching :
          Len(cars[i].accidents) = 2 /\ cars[i].accidents[1] = cars[i].accidents[2]
    /\ RowCountSum(out.rows) > Cardinality(Matching)

-----------------------------------------------------------------------------
(* SpecSample: the price-vs-mileage sample *)

SampleDocs ==
    {Car(Null, m, Str(PETROL), Num(1), Num(2020), mileage, Num(1), <<>>, <<>>) :
        m \in {Str(TOYOTA), Null},
        mileage \in {Num(10), Str(<<"2", "0">>), Str(<<"n", "/", "a">>)}}

SampleLimits == {1, 2, DefaultSampleLimit}

ShowPriceMileage ==
    /\ \E limit \in SampleLimits :
          out' = [fn |-> "fetch_price_mileage", limit |-> limit,
                  rows |-> fetch_price_mileage(cars, match, limit)]
    /\ UNCHANGED <<storeVars, filterVars, dateVars, clockVars, connVars, cacheVars>>

SampleInit ==
    /\ cars \in Collections(SampleDocs, MaxCars)
    /\ dealers = {}
    /\ DefaultFilters
    /\ NoDate /\ NoClock /\ NoConn /\ NoCache

SampleNext ==
    \/ SelectManufacturer
    \/ ShowPriceMileage

SpecSample == SampleInit /\ [][SampleNext]_vars

\* C8: fetch_price_mileage returns exactly the sampled rows (the first `limit`
\* vehicles matching the predicate) whose price and mileage are both numeric
\* after coercion: at most `limit` rows, each with numeric price and mileage,
\* and a sampled row is left out only for a non-numeric price or mileage.
C8_SampleDropsOnlyNonNumericRows ==
    out.fn = "fetch_price_mileage" =>
        LET cursor == Cursor(cars, match, out.limit)
            sampled == [i \in DOMAIN cursor |-> Coerced(cursor[i])]
        IN  /\ Len(out.rows) <= out.limit
            /\ \A r \in DOMAIN out.rows :
                  IsNum(out.rows[r].price) /\ IsNum(out.rows[r].mileage)
            /\ out.rows = SelectSeq(sampled, LAMBDA row : IsNum(row.price) /\ IsNum(row.mileage))

-----------------------------------------------------------------------------
(* SpecDetail: the car history viewer *)

DetailIds == {Num(5), Num(7), Str(<<"5">>), Str(<<"0", "7">>), Str(<<"a", "b">>)}

DetailDocs ==
    {Car(id, Str(m), Str(PETROL), Num(1), Num(2020), Num(10), Num(1), <<>>, <<>>) :
        id \in DetailIds, m \in {TOYOTA, FORD}}

\* the collections of at most n documents of docs: _id is unique in a collection
DetailCollections(docs, n) ==
    UNION {{q \in [1..k -> docs] : \A i, j \in 1..k : i # j => q[i]._id # q[j]._id} :
           k \in 1..n}

PickCar ==
    /\ \E key \in OptionKeys(fetch_cars_list(cars, match, DefaultListLimit)) :
          out' = [fn |-> "get_car_detail",
                  picked |-> OptionEntry(fetch_cars_list(cars, match, DefaultListLimit), key),
                  selected_key |-> key,
                  car_id |-> CarId(key),
                  car |-> get_car_detail(cars, CarId(key))]
    /\ UNCHANGED <<storeVars, filterVars, dateVars, clockVars, connVars, cacheVars>>

DetailInit ==
    /\ cars \in DetailCollections(DetailDocs, MaxCars)
    /\ dealers = {}
    /\ DefaultFilters
    /\ NoDate /\ NoClock /\ NoConn /\ NoCache

DetailNext ==
    \/ SelectManufacturer
    \/ PickCar

SpecDetail == DetailInit /\ [][DetailNext]_vars

\* C10: for the vehicle picked in the selector, whatever the type of its stored
\* identifier, the key passed to get_car_detail equals the stored identifier and
\* the lookup returns that vehicle's own document, with the same manufacturer,
\* model and price.
C10_DetailIsThePickedVehicle ==
    out.fn = "get_car_detail" =>
        /\ out.car_id = out.picked._id
        /\ out.car.found
        /\ \E i \in DOMAIN cars :
              /\ cars[i]._id = out.picked._id
              /\ out.car.doc._id = cars[i]._id
              /\ out.car.doc.manufacturer = cars[i].manufacturer
              /\ out.car.doc.model = cars[i].model
              /\ out.car.doc.price = cars[i].price

-----------------------------------------------------------------------------
(* SpecService: the service frequency chart, as the days pass *)

MaxDays == 2
MaxServices == 2

ServiceStartDates == {<<2024, 2, 28>>, <<2024, 12, 31>>}

ServiceDates ==
    {<<2019, 2, 27, 12>>, <<2019, 2, 28, 0>>, <<2019, 12, 30, 12>>, <<2019, 12, 31, 0>>,
     <<2020, 1, 1, 0>>, <<2023, 6, 1, 12>>}

\* the service events e (<<vehicle, date>>, oldest first) as the embedded
\* array of vehicle c
ServicesOf(e, c) ==
    LET mine == SelectSeq(e, LAMBDA x : x[1] = c)
    IN  [i \in DOMAIN mine |-> [Date_of_Service |-> mine[i][2]]]

\* a Toyota and a Ford with at most n service events between them
ServiceCollections(n) ==
    {<<Car(Num(1), Str(TOYOTA), Str(PETROL), Num(1), Num(2020), Num(10), Num(1),
           <<>>, ServicesOf(e, 1)),
       Car(Num(2), Str(FORD), Str(PETROL), Num(1), Num(2020), Num(10), Num(1),
           <<>>, ServicesOf(e, 2))>> :
     e \in UNION {[1..k -> {1, 2} \X ServiceDates] : k \in 0..n}}

\* the date changes at midnight
NextDay ==
    /\ days < MaxDays
    /\ today' = Tomorrow(today)
    /\ days' = days + 1
    /\ UNCHANGED <<storeVars, filterVars, out, clockVars, connVars, cacheVars>>

\* the dates the three datetime.now() calls of one cutoff can read: midnight
\* may pass between two of them
NowReads ==
    {r \in [1..3 -> {today, Tomorrow(today)}] :
        /\ \A i, j \in 1..3 : i < j /\ r[i] # today => r[j] # today
        /\ r[3] # today => days < MaxDays}

ShowServiceFrequency ==
    /\ \E r \in NowReads :
          /\ today' = r[3]
          /\ days' = IF r[3] = today THEN days ELSE days + 1
          /\ \E res \in service_frequency_pipeline(cars, match, r[1][1], r[2][2], r[3][3]) :
                out' = [fn |-> "service_frequency", started |-> today, finished |-> r[3],
                        raised |-> res.raised, cutoff |-> res.cutoff, rows |-> res.rows]
    /\ UNCHANGED <<storeVars, filterVars, clockVars, connVars, cacheVars>>

ServiceInit ==
    /\ cars \in ServiceCollections(MaxServices)
    /\ dealers = {}
    /\ DefaultFilters
    /\ today \in ServiceStartDates /\ days = 0
    /\ NoClock /\ NoConn /\ NoCache

ServiceNext ==
    \/ SelectManufacturer
    \/ NextDay
    \/ ShowServiceFrequency

SpecService == ServiceInit /\ [][ServiceNext]_vars

\* the service events of the vehicles matching the predicate
MatchingServices == Unwind(cars, Matching, "services")
ServiceDate(e) == cars[e[1]].services[e[2]].Date_of_Service

\* the day before <<y, m, d>>
Yesterday(date) ==
    IF date[3] > 1 THEN <<date[1], date[2], date[3] - 1>>
    ELSE IF date[2] > 1 THEN <<date[1], date[2] - 1, DaysInMonth(date[1], date[2] - 1)>>
    ELSE <<date[1] - 1, 12, 31>>

DayOf(datetime_) == SubSeq(datetime_, 1, 3)

\* C7: the cutoff is an inclusive lower bound: each year's row counts the
\* service events of matching vehicles of that year dated at the cutoff or
\* later, so an event dated exactly at the cutoff is counted in the row of its
\* year and one dated the day before is counted in no row; the rows are in
\* ascending order of year.
C7_CutoffIsInclusiveLowerBound ==
    out.fn = "service_frequency" /\ ~out.raised =>
        LET counted == {e \in MatchingServices :
                           ServiceDate(e) = out.cutoff \/ TupleLess(out.cutoff, ServiceDate(e))}
            years == {ServiceDate(e)[1] : e \in counted}
        IN  /\ \A e \in MatchingServices :
                  DayOf(ServiceDate(e)) = Yesterday(DayOf(out.cutoff)) => e \notin counted
            /\ {out.rows[r].year : r \in DOMAIN out.rows} = years
            /\ \A r \in DOMAIN out.rows :
                  out.rows[r].services_count
                      = Cardinality({e \in counted : ServiceDate(e)[1] = out.rows[r].year})
            /\ \A a, b \in DOMAIN out.rows : a < b => out.rows[a].year < out.rows[b].year

\* a matching vehicle has a service dated exactly at the cutoff and one dated
\* the day before, and the chart has a row
C7_Reached ==
    /\ out.fn = "service_frequency" /\ ~out.raised
    /\ \E e \in MatchingServices : ServiceDate(e) = out.cutoff
    /\ \E e \in MatchingServices : DayOf(ServiceDate(e)) = Yesterday(DayOf(out.cutoff))
    /\ Len(out.rows) = 1
    /\ out.rows[1].services_count = 1

\* C9: for every current date, leap days included, the cutoff is the date with
\* the same month and day five years earlier, and the call completes with a
\* result instead of raising.
\* (Stated of the calls during which the date does not change.)
C9_CutoffIsFiveYearsEarlierAndNeverRaises ==
    out.fn = "service_frequency" /\ out.started = out.finished =>
        /\ ~out.raised
        /\ out.cutoff = <<out.started[1] - WindowYears, out.started[2], out.started[3], 0>>

-----------------------------------------------------------------------------
(* SpecConn: get_db over the script runs of one process *)

MaxTicks == 4

\* time passes, at most n times: by a second, or by a second less than the
\* time-to-live ttl of a cache
AdvanceClock(ttl, n) ==
    /\ ticks < n
    /\ \E d \in {1, ttl - 1} : clock' = clock + d
    /\ ticks' = ticks + 1

\* a script run calls get_db()
GetDb ==
    /\ IF Fresh(resource_cache, "get_db", clock, RESOURCE_TTL)
       THEN /\ db' = [handle |-> resource_cache["get_db"].value, at |-> clock]
            /\ UNCHANGED <<resource_cache, clients>>
       ELSE IF ~mongo_uri
       THEN \* st.error, st.stop(): the run ends and nothing is cached
            /\ db' = NoHandle
            /\ UNCHANGED <<resource_cache, clients>>
       ELSE \* client = MongoClient(uri)
            /\ clients' = Append(clients, clock)
            /\ resource_cache' = Put(resource_cache, "get_db", Len(clients) + 1, clock)
            /\ db' = [handle |-> Len(clients) + 1, at |-> clock]
    /\ UNCHANGED <<mongo_uri, storeVars, filterVars, out, dateVars, clockVars, cacheVars>>

ConnTick ==
    /\ AdvanceClock(RESOURCE_TTL, MaxTicks)
    /\ UNCHANGED <<storeVars, filterVars, out, dateVars, connVars, cacheVars>>

ConnInit ==
    /\ cars = FilterCars
    /\ dealers = {}
    /\ DefaultFilters
    /\ mongo_uri \in BOOLEAN
    /\ resource_cache = <<>> /\ clients = <<>> /\ db = NoHandle
    /\ NoDate /\ NoClock /\ NoCache

ConnNext ==
    \/ GetDb
    \/ ConnTick

SpecConn == ConnInit /\ [][ConnNext]_vars

\* C2: over any sequence of script runs of one process, at any elapsed time,
\* the connection handle is created at most once.
C2_HandleCreatedAtMostOnce == Len(clients) <= 1

\* C2, amended: two handles are never built within RESOURCE_TTL seconds of each
\* other, and a run gets the handle built last, which was built less than
\* RESOURCE_TTL seconds before the run.
C2_OneHandlePerTtlWindow ==
    /\ \A i, j \in DOMAIN clients : i < j => clients[j] - clients[i] >= RESOURCE_TTL
    /\ db.handle # 0 =>
          /\ db.handle \in DOMAIN clients
          /\ clients[db.handle] <= db.at
          /\ db.at - clients[db.handle] < RESOURCE_TTL
          /\ \A j \in DOMAIN clients : clients[j] <= db.at => j <= db.handle

\* a second handle was built, and a later run reused it
C2_Reached ==
    /\ Len(clients) = 2
    /\ db.handle = 2
    /\ db.at > clients[2]

-----------------------------------------------------------------------------
(* SpecCache: the cached transforms, as requests, store updates and clock
   advances interleave *)

\* a Toyota and a vehicle whose manufacturer is null, which no option of the
\* manufacturer selectbox selects
CacheDocs ==
    {Car(Null, m, Str(PETROL), Num(1), Num(2020), Num(10), Num(1), <<>>,
         <<[Date_of_Service |-> <<2023, 6, 1, 12>>]>>) : m \in {Str(TOYOTA), Null}}

MaxCacheTicks == 2

\* a key that leaves the argument out
CacheKeyOfFunction(fn, arg) == <<fn, <<>>>>

\* the key of a cache entry: the function and the value of its argument
CacheKey(fn, arg) == <<fn, arg>>

\* another client of the store adds a vehicle, one the store does not hold yet
InsertCar ==
    /\ \E doc \in CacheDocs :
          /\ \A i \in DOMAIN cars : cars[i].manufacturer # doc.manufacturer
          /\ cars' = Append(cars, [doc EXCEPT !._id = Num(Len(cars) + 1)])
    /\ out' = NoCall
    /\ UNCHANGED <<dealers, filterVars, dateVars, clockVars, connVars, cacheVars>>

CacheTick ==
    /\ AdvanceClock(DATA_TTL, MaxCacheTicks)
    /\ out' = NoCall
    /\ UNCHANGED <<storeVars, filterVars, dateVars, connVars, cacheVars>>

\* @st.cache_data(ttl=300) around a transform: the entry of this function and
\* argument is served while fresh; otherwise the transform runs, and its
\* result, one of results, is stored
CachedCall(fn, arg, results) ==
    IF Fresh(data_cache, CacheKey(fn, arg), clock, DATA_TTL)
    THEN /\ out' = [fn |-> fn, arg |-> arg, at |-> clock,
                    result |-> data_cache[CacheKey(fn, arg)].value]
         /\ UNCHANGED cacheVars
    ELSE \E r \in results :
            /\ out' = [fn |-> fn, arg |-> arg, at |-> clock, result |-> r]
            /\ data_cache' = Put(data_cache, CacheKey(fn, arg), r, clock)
            /\ queries' = (<<fn, arg>> :> [at |-> clock, result |-> r]) @@ queries

CallManufacturerDistribution ==
    /\ CachedCall("manufacturer_distribution_pipeline", match,
                  manufacturer_distribution_pipeline(cars, match))
    /\ UNCHANGED <<storeVars, filterVars, dateVars, clockVars, connVars>>

\* a call that raises stores nothing and ends the run without a chart
CallServiceFrequency ==
    /\ CachedCall("service_frequency_pipeline", match,
                  {res.rows : res \in
                      {x \in service_frequency_pipeline(cars, match, today[1], today[2], today[3]) :
                          ~x.raised}})
    /\ UNCHANGED <<storeVars, filterVars, dateVars, clockVars, connVars>>

CacheInit ==
    /\ cars \in Collections(CacheDocs, 1)
    /\ dealers = {}
    /\ DefaultFilters
    /\ NoDate /\ NoClock /\ NoConn /\ NoCache

CacheNext ==
    \/ SelectManufacturer
    \/ InsertCar
    \/ CacheTick
    \/ CallManufacturerDistribution
    \/ CallServiceFrequency

SpecCache == CacheInit /\ [][CacheNext]_vars

\* C3: the result a transform returns for predicate P at time t is the result
\* a store query of that transform for P produced less than DATA_TTL seconds
\* before t (or at t): an entry is not served once its time-to-live has
\* elapsed, nor for another predicate.
C3_ServedResultIsFreshAndForThePredicate ==
    out.fn # "none" =>
        /\ <<out.fn, out.arg>> \in DOMAIN queries
        /\ queries[<<out.fn, out.arg>>].result = out.result
        /\ queries[<<out.fn, out.arg>>].at <= out.at
        /\ out.at - queries[<<out.fn, out.arg>>].at < DATA_TTL

\* a result served from the cache one second before it expires, after the
\* store has changed and another predicate has been queried in between
C3_Reached ==
    /\ out.fn = "manufacturer_distribution_pipeline"
    /\ <<out.fn, out.arg>> \in DOMAIN queries
    /\ out.at - queries[<<out.fn, out.arg>>].at = DATA_TTL - 1
    /\ out.result \notin manufacturer_distribution_pipeline(cars, out.arg)
    /\ \E k \in DOMAIN queries : k[1] = out.fn /\ k[2] # out.arg

====
